---- MODULE Spec2Model ----
(***************************************************************************)
(* Model of the expense store of src/main.py: one SQLite table "expenses"  *)
(* with an AUTOINCREMENT primary key, initialised by init_db and accessed  *)
(* by the six tools add_expense, list_expenses, summarize, get_expense,    *)
(* edit_expense and delete_expense.  Every tool opens its own connection,  *)
(* runs its statements and commits; here each tool call is one step.       *)
(*                                                                         *)
(* Spec is the store under init_db and the id-addressed tools.  SpecQuery  *)
(* applies the two range queries, which change nothing, to every table of  *)
(* up to MaxRows rows and every choice of arguments.  SpecConc runs the    *)
(* calls of two connections statement by statement, under the write lock   *)
(* of the database file and with storage faults; SpecLive adds fairness.   *)
(*                                                                         *)
(* Text values are TLA+ strings, except dates, which are sequences of      *)
(* digits so that SQLite's byte-wise (memcmp) text comparison can be       *)
(* computed: <<1,0>> is the text '10', <<9>> is the text '9'.              *)
(***************************************************************************)
EXTENDS Integers, Sequences, FiniteSets, TLC

\* Largest rowid the model lets sqlite_sequence reach.
MaxId == 3

\* Largest number of rows of the tables the range queries are applied to.
MaxRows == 3

\* Python None, bound by sqlite3 as SQL NULL.
None == "None"

\* Date texts that are stored, and date texts used as range ends.
Dates == { <<1, 0>>, <<9>> }
QueryDates == { <<1>>, <<1, 0>>, <<9>> }

Amounts == { 0, 5 }
Categories == { "", "Food", "test" }
Subcategories == { "", "s" }
Notes == { "", "n" }

Ids == 1 .. MaxId

FieldNames == { "date", "amount", "category", "subcategory", "note" }

VARIABLES
    rows,      \* the rows of table expenses: a set of records with an id
    seq,       \* sqlite_sequence.seq for table expenses
    returned,  \* history: the ids returned by successful add_expense calls
    deleted,   \* history: the ids for which delete_expense succeeded
    call,      \* the last tool call (or init_db) and its arguments
    result,    \* what that call returned
    conns,     \* step by step: the call each connection is running
    writer,    \* step by step: the connection that holds the write lock, or 0
    writable   \* whether the database file can be written

\* The state of the calls that run step by step (SpecConc).
stepvars == << conns, writer, writable >>

vars == << rows, seq, returned, deleted, call, result, conns, writer, writable >>

----------------------------------------------------------------------------
(* Helpers of the storage engine *)

\* memcmp order of two texts (BINARY collation): a proper prefix is smaller.
RECURSIVE TextLeq(_, _)
TextLeq(a, b) ==
    IF a = << >> THEN TRUE
    ELSE IF b = << >> THEN FALSE
    ELSE IF Head(a) < Head(b) THEN TRUE
    ELSE IF Head(a) > Head(b) THEN FALSE
    ELSE TextLeq(Tail(a), Tail(b))

TextLess(a, b) == TextLeq(a, b) /\ a # b

\* x BETWEEN lo AND hi
Between(x, lo, hi) == TextLeq(lo, x) /\ TextLeq(x, hi)

RECURSIVE SetMax(_)
SetMax(S) ==
    IF S = {} THEN 0
    ELSE LET x == CHOOSE y \in S : TRUE
             m == SetMax(S \ {x})
         IN  IF x > m THEN x ELSE m

RowIds(t) == { r.id : r \in t }

\* Variant: the rowid of a table declared without AUTOINCREMENT, one more
\* than the largest rowid now in the table.
NextRowidReuse(t, s) == SetMax(RowIds(t)) + 1

\* The rowid an INSERT gets in an AUTOINCREMENT table: one more than the
\* largest rowid the table has ever held.
NextRowid(t, s) ==
    LET m == SetMax(RowIds(t)) IN (IF s > m THEN s ELSE m) + 1

\* A keyword argument that was left out takes its default.
Arg(args, k, default) == IF k \in DOMAIN args THEN args[k] ELSE default

\* Variant: the last two parameters bound in the wrong order.
MkRowSwapped(id, date, amount, category, subcategory, note) ==
    [ id |-> id, date |-> date, amount |-> amount, category |-> category,
      subcategory |-> note, note |-> subcategory ]

MkRow(id, date, amount, category, subcategory, note) ==
    [ id |-> id, date |-> date, amount |-> amount, category |-> category,
      subcategory |-> subcategory, note |-> note ]

----------------------------------------------------------------------------
(* Results.  A returned dict is a record; the text of a message is the     *)
(* sequence of the parts of its f-string; a returned list is a record      *)
(* with the one field items (it has no "status" key).                      *)

Error(msg) == [ status |-> "error", message |-> msg ]
NotFound(expense_id) == Error(<< "Expense ID", expense_id, "not found" >>)
NotNullFailed == << "NOT NULL constraint failed: expenses.category" >>
NoFields == << "No fields to update" >>
ListResult(s) == [ items |-> s ]

\* No call has returned yet.
Pending == [ status |-> "pending" ]

----------------------------------------------------------------------------
\* The connections that run calls step by step.
Conns == { 1, 2 }

\* A connection that runs no call.
Idle == [ pc |-> "idle", call |-> [ op |-> "none" ], result |-> Pending,
          work |-> {}, wseq |-> 0, lastrowid |-> 0, rowcount |-> 0,
          attempts |-> 0 ]

\* The date text '2000-01-01' of the self-test row (digits only).
SentinelDate == <<2, 0, 0, 0, 0, 1, 0, 1>>

(* Initial state: a fresh database file after the module-level init_db() *)

Init ==
    /\ rows = {}
    /\ seq = 1
    /\ returned = {}
    /\ deleted = {}
    /\ call = [ op |-> "init" ]
    /\ result = Pending
    /\ conns = [ p \in Conns |-> Idle ]
    /\ writer = 0
    /\ writable = TRUE

\* init_db() run again (a process restart on the same file).
init_db ==
    /\ seq < MaxId
    /\ LET id == NextRowid(rows, seq)
           withSentinel == rows \cup { MkRow(id, SentinelDate, 0, "test", "", "") }
       IN  /\ rows' = { r \in withSentinel : r.category # "test" }
           /\ seq' = id
    /\ call' = [ op |-> "init" ]
    /\ result' = Pending
    /\ UNCHANGED << returned, deleted >>
    /\ UNCHANGED stepvars

----------------------------------------------------------------------------
(* Arguments *)

EmptyArgs == [ k \in {} |-> 0 ]

\* A keyword argument: left out, or given one of the values of D.
OptArg(k, D) == { EmptyArgs } \cup { k :> v : v \in D }

\* subcategory="" and note="" of add_expense: omitted or given.
AddKeywords ==
    { a @@ b : a \in OptArg("subcategory", Subcategories \ {""}),
               b \in OptArg("note", Notes \ {""}) }

\* date=None, ..., note=None of edit_expense: each omitted or given.
AllEditKeywords ==
    { a @@ b @@ c @@ d @@ e :
        a \in OptArg("date", Dates), b \in OptArg("amount", Amounts),
        c \in OptArg("category", Categories),
        d \in OptArg("subcategory", Subcategories), e \in OptArg("note", Notes) }

\* The edits that are tried: no field, any one field with any value, and
\* the five fields together, once with the empty and zero values and once
\* with the others.
EditKeywords ==
    { kw \in AllEditKeywords :
        \/ Cardinality(DOMAIN kw) <= 1
        \/ kw = [ date |-> <<9>>, amount |-> 0, category |-> "",
                  subcategory |-> "", note |-> "" ]
        \/ kw = [ date |-> <<1, 0>>, amount |-> 5, category |-> "Food",
                  subcategory |-> "s", note |-> "n" ] }

----------------------------------------------------------------------------
(* add_expense *)

\* Variant: the column category declared without NOT NULL.
add_expense_nullable(date, amount, category, kw) ==
    /\ call' = [ op |-> "add", date |-> date, amount |-> amount,
                 category |-> category, kw |-> kw ]
    /\ seq < MaxId
    /\ LET expense_id == NextRowid(rows, seq)
       IN  /\ rows' = rows \cup
                { MkRow(expense_id, date, amount, category,
                        Arg(kw, "subcategory", ""), Arg(kw, "note", "")) }
           /\ seq' = expense_id
           /\ returned' = returned \cup { expense_id }
           /\ result' = [ status |-> "success", id |-> expense_id ]
    /\ UNCHANGED deleted
    /\ UNCHANGED stepvars

add_expense(date, amount, category, kw) ==
    /\ call' = [ op |-> "add", date |-> date, amount |-> amount,
                 category |-> category, kw |-> kw ]
    /\ IF category = None
       THEN \* the INSERT raises IntegrityError; nothing is committed
            /\ result' = Error(NotNullFailed)
            /\ UNCHANGED << rows, seq, returned, deleted >>
       ELSE /\ seq < MaxId
            /\ LET expense_id == NextRowid(rows, seq)
               IN  /\ rows' = rows \cup
                        { MkRow(expense_id, date, amount, category,
                                Arg(kw, "subcategory", ""), Arg(kw, "note", "")) }
                   /\ seq' = expense_id
                   /\ returned' = returned \cup { expense_id }
                   /\ result' = [ status |-> "success", id |-> expense_id ]
            /\ UNCHANGED deleted
    /\ UNCHANGED stepvars

----------------------------------------------------------------------------
(* get_expense *)

\* SELECT ... FROM expenses WHERE id = ? ; fetchone()
SelectById(t, expense_id) == { r \in t : r.id = expense_id }

GetExpense(t, expense_id) ==
    LET found == SelectById(t, expense_id)
    IN  IF found = {} THEN NotFound(expense_id)
        ELSE [ status |-> "success", expense |-> CHOOSE r \in found : TRUE ]

get_expense(expense_id) ==
    /\ call' = [ op |-> "get", id |-> expense_id ]
    /\ result' = GetExpense(rows, expense_id)
    /\ UNCHANGED << rows, seq, returned, deleted >>
    /\ UNCHANGED stepvars

----------------------------------------------------------------------------
(* edit_expense *)

\* Variant: "if date:" in place of "if date is not None:", for each field.
SetClauseTruthy(kw) ==
    { k \in FieldNames :
        /\ k \in DOMAIN kw
        /\ k = "amount" => kw[k] # 0
        /\ k = "date" => kw[k] # << >>
        /\ k \in { "category", "subcategory", "note" } => kw[k] # "" }

\* The columns named in the SET clause: the arguments that are not None.
SetClause(kw) == { k \in FieldNames : k \in DOMAIN kw }

UpdateRow(r, kw) ==
    [ f \in DOMAIN r |-> IF f \in SetClause(kw) THEN kw[f] ELSE r[f] ]

\* Variant: the UPDATE without its WHERE clause.
UpdateAll(t, expense_id, kw) == { UpdateRow(r, kw) : r \in t }

\* UPDATE expenses SET ... WHERE id = ?
UpdateById(t, expense_id, kw) ==
    { IF r.id = expense_id THEN UpdateRow(r, kw) ELSE r : r \in t }

\* Variant: edit_expense without "if not fields: return ...": the statement
\* "UPDATE expenses SET  WHERE id = ?" is rejected by the parser.
edit_expense_unchecked(expense_id, kw) ==
    /\ call' = [ op |-> "edit", id |-> expense_id, kw |-> kw ]
    /\ IF SetClause(kw) = {}
       THEN /\ result' = Error(<< "near \"WHERE\": syntax error" >>)
            /\ UNCHANGED rows
       ELSE LET rowcount == Cardinality(SelectById(rows, expense_id))
            IN  /\ rows' = UpdateById(rows, expense_id, kw)
                /\ result' = IF rowcount = 0 THEN NotFound(expense_id)
                             ELSE [ status |-> "success", updated_id |-> expense_id ]
    /\ UNCHANGED << seq, returned, deleted >>
    /\ UNCHANGED stepvars

edit_expense(expense_id, kw) ==
    /\ call' = [ op |-> "edit", id |-> expense_id, kw |-> kw ]
    /\ IF SetClause(kw) = {}
       THEN /\ result' = Error(NoFields)
            /\ UNCHANGED rows
       ELSE LET rowcount == Cardinality(SelectById(rows, expense_id))
            IN  /\ rows' = UpdateById(rows, expense_id, kw)
                /\ result' = IF rowcount = 0 THEN NotFound(expense_id)
                             ELSE [ status |-> "success", updated_id |-> expense_id ]
    /\ UNCHANGED << seq, returned, deleted >>
    /\ UNCHANGED stepvars

----------------------------------------------------------------------------
(* delete_expense *)

\* Variant: the DELETE is never committed.
DeleteByIdUncommitted(t, expense_id) == t

\* DELETE FROM expenses WHERE id = ?
DeleteById(t, expense_id) == { r \in t : r.id # expense_id }

delete_expense(expense_id) ==
    /\ call' = [ op |-> "delete", id |-> expense_id ]
    /\ LET rowcount == Cardinality(SelectById(rows, expense_id))
       IN  /\ rows' = DeleteById(rows, expense_id)
           /\ result' = IF rowcount = 0 THEN NotFound(expense_id)
                        ELSE [ status |-> "success", deleted_id |-> expense_id ]
           /\ deleted' = IF rowcount = 0 THEN deleted
                         ELSE deleted \cup { expense_id }
    /\ UNCHANGED << seq, returned >>
    /\ UNCHANGED stepvars

----------------------------------------------------------------------------
(* list_expenses *)

\* WHERE date BETWEEN ? AND ?
InRange(t, start_date, end_date) ==
    { r \in t : Between(r.date, start_date, end_date) }

\* Variant: ORDER BY date DESC, id
OrderedBeforeIdAsc(r, q) ==
    \/ TextLess(q.date, r.date)
    \/ r.date = q.date /\ r.id < q.id

\* ORDER BY date DESC, id DESC: r comes before q
OrderedBefore(r, q) ==
    \/ TextLess(q.date, r.date)
    \/ r.date = q.date /\ r.id > q.id

RECURSIVE OrderRows(_)
OrderRows(S) ==
    IF S = {} THEN << >>
    ELSE LET first == CHOOSE r \in S : \A q \in S \ {r} : OrderedBefore(r, q)
         IN  << first >> \o OrderRows(S \ {first})

ListExpenses(t, start_date, end_date) ==
    OrderRows(InRange(t, start_date, end_date))

list_expenses(start_date, end_date) ==
    /\ call' = [ op |-> "list", start_date |-> start_date, end_date |-> end_date ]
    /\ result' = ListResult(ListExpenses(rows, start_date, end_date))
    /\ UNCHANGED << rows, seq, returned, deleted >>
    /\ UNCHANGED stepvars

----------------------------------------------------------------------------
(* summarize *)

RECURSIVE SumAmount(_)
SumAmount(S) ==
    IF S = {} THEN 0
    ELSE LET r == CHOOSE x \in S : TRUE
         IN  r.amount + SumAmount(S \ {r})

\* "if category:" is the truth value of the argument
Truthy(category) == category # None /\ category # ""

\* WHERE date BETWEEN ? AND ? [AND category = ?]
SummarizeWhere(t, start_date, end_date, category) ==
    { r \in InRange(t, start_date, end_date) :
        Truthy(category) => r.category = category }

\* SELECT category, SUM(amount), COUNT(*) ... GROUP BY category
GroupByCategory(S) ==
    { [ category |-> c,
        total_amount |-> SumAmount({ r \in S : r.category = c }),
        count |-> Cardinality({ r \in S : r.category = c }) ]
      : c \in { r.category : r \in S } }

RECURSIVE Orderings(_)
Orderings(S) ==
    IF S = {} THEN { << >> }
    ELSE UNION { { << x >> \o s : s \in Orderings(S \ {x}) } : x \in S }

\* Variant: ORDER BY total_amount
OrderByTotalAsc(G) ==
    { s \in Orderings(G) :
        \A i \in 1 .. Len(s) - 1 : s[i].total_amount <= s[i + 1].total_amount }

\* ORDER BY total_amount DESC; the order of equal totals is the engine's
OrderByTotal(G) ==
    { s \in Orderings(G) :
        \A i \in 1 .. Len(s) - 1 : s[i].total_amount >= s[i + 1].total_amount }

Summarize(t, start_date, end_date, category) ==
    OrderByTotal(GroupByCategory(SummarizeWhere(t, start_date, end_date, category)))

summarize(start_date, end_date, category) ==
    /\ call' = [ op |-> "summarize", start_date |-> start_date,
                 end_date |-> end_date, category |-> category ]
    /\ \E s \in Summarize(rows, start_date, end_date, category) :
          result' = ListResult(s)
    /\ UNCHANGED << rows, seq, returned, deleted >>
    /\ UNCHANGED stepvars

----------------------------------------------------------------------------

(* The store under init_db and the id-addressed tools *)

Next ==
    \/ init_db
    \/ \E date \in Dates, amount \in Amounts, category \in Categories \cup {None},
          kw \in AddKeywords : add_expense(date, amount, category, kw)
    \/ \E expense_id \in Ids : get_expense(expense_id)
    \/ \E expense_id \in Ids, kw \in EditKeywords : edit_expense(expense_id, kw)
    \/ \E expense_id \in Ids : delete_expense(expense_id)

Spec == Init /\ [][Next]_vars

----------------------------------------------------------------------------
(* The range queries on every table of up to MaxRows rows *)

\* The ids of such a table: id 1 went to the self-test row of init_db.
TableIds == 2 .. MaxRows + 1

\* The tables add_expense can build from the sample values (subcategory and
\* note left out).
Tables ==
    UNION { { { MkRow(i, f[i][1], f[i][2], f[i][3], "", "") : i \in I } :
                f \in [ I -> Dates \X Amounts \X Categories ] } :
            I \in SUBSET TableIds }

Queries ==
    { [ op |-> "list", start_date |-> d1, end_date |-> d2 ] :
        d1 \in QueryDates, d2 \in QueryDates }
    \cup
    { [ op |-> "summarize", start_date |-> d1, end_date |-> d2, category |-> c ] :
        d1 \in QueryDates, d2 \in QueryDates, c \in Categories \cup {None} }

InitQuery ==
    /\ rows \in Tables
    /\ seq = SetMax(RowIds(rows) \cup {1})
    /\ returned = RowIds(rows)
    /\ deleted = {}
    /\ call \in Queries
    /\ result = Pending
    /\ conns = [ p \in Conns |-> Idle ]
    /\ writer = 0
    /\ writable = TRUE

\* list_expenses on the arguments drawn
ApplyList ==
    /\ result = Pending
    /\ call.op = "list"
    /\ list_expenses(call.start_date, call.end_date)

\* summarize on the arguments drawn
ApplySummarize ==
    /\ result = Pending
    /\ call.op = "summarize"
    /\ summarize(call.start_date, call.end_date, call.category)

NextQuery == ApplyList \/ ApplySummarize

SpecQuery == InitQuery /\ [][NextQuery]_vars

----------------------------------------------------------------------------
(* The calls of two connections, statement by statement.  A call opens a   *)
(* connection; its first INSERT, UPDATE or DELETE begins a transaction     *)
(* and takes the write lock of the file, or fails; the changes are made on *)
(* the transaction's own copy (work, wseq) and reach the file at commit().  *)
(* Leaving "async with" closes the connection, which rolls back what was   *)
(* not committed and frees the lock.                                       *)

\* The calls that are tried.
ConcCalls ==
    { [ op |-> "add", date |-> <<1, 0>>, amount |-> 5, category |-> "Food",
        kw |-> EmptyArgs ],
      [ op |-> "add", date |-> <<9>>, amount |-> 0, category |-> "test",
        kw |-> ("note" :> "n") ],
      [ op |-> "add", date |-> <<9>>, amount |-> 0, category |-> None,
        kw |-> EmptyArgs ] }
    \cup { [ op |-> "edit", id |-> i, kw |-> kw ] :
             i \in Ids, kw \in { EmptyArgs, ("amount" :> 0) @@ ("note" :> "n") } }
    \cup { [ op |-> "delete", id |-> i ] : i \in Ids }
    \cup { [ op |-> "get", id |-> i ] : i \in Ids }
    \cup { [ op |-> "init" ] }
    \cup { [ op |-> "list", start_date |-> <<1>>, end_date |-> <<9>> ] }
    \cup { [ op |-> "summarize", start_date |-> <<1>>, end_date |-> <<9>>,
             category |-> None ] }

\* The texts of the exceptions of the storage engine.
ReadonlyMsg == << "attempt to write a readonly database" >>
LockedMsg == << "database is locked" >>
IOErrorMsg == << "disk I/O error" >>

\* "readonly" in str(e).lower()
MentionsReadonly(msg) == msg = ReadonlyMsg

\* What a call does with an exception: the except clause of each tool;
\* init_db has none, the exception leaves it.
Except(c, msg) ==
    IF c.op = "init" THEN [ status |-> "raised", message |-> msg ]
    ELSE IF c.op = "add" /\ MentionsReadonly(msg)
         THEN Error(<< "Database is read-only" >>)
         ELSE Error(msg)

Reads(c) == c.op \in { "get", "list", "summarize" }

\* The call executes an INSERT, UPDATE or DELETE.
Writes(c) ==
    \/ c.op \in { "add", "delete", "init" }
    \/ c.op = "edit" /\ SetClause(c.kw) # {}

Inserts(c) == c.op \in { "add", "init" }

\* Variant: a reader that sees the uncommitted changes of the writer.
VisibleUncommitted(p) == IF writer # 0 THEN conns[writer].work ELSE rows

\* The table a statement of connection p reads: the committed rows.
Visible(p) == rows

\* Variant: writers that do not exclude each other.
LockFreeAlways(p) == TRUE

\* Connection p can take the write lock.
LockFree(p) == writer = 0

Set(p, c) == conns' = [ conns EXCEPT ![p] = c ]

Return(p, res) ==
    Set(p, [ Idle EXCEPT !.pc = "returned", !.call = conns[p].call,
                         !.result = res,
                         !.attempts = conns[p].attempts ])

\* A tool is called on connection p.  (An INSERT is called only while the
\* inserts under way leave a rowid below MaxId for it.)
Call(p, c) ==
    /\ conns[p].pc = "idle"
    /\ Inserts(c) =>
         seq + Cardinality({ q \in Conns : /\ conns[q].pc \notin { "idle", "returned" }
                                           /\ Inserts(conns[q].call) }) < MaxId
    /\ Set(p, [ Idle EXCEPT !.pc = "called", !.call = c ])
    /\ UNCHANGED << rows, seq, returned, deleted, call, result, writer, writable >>

\* get_expense, list_expenses, summarize: the SELECT and the return.
Read(p) ==
    LET c == conns[p].call
    IN  /\ conns[p].pc = "called"
        /\ Reads(c)
        /\ \/ /\ c.op = "get"
              /\ Return(p, GetExpense(Visible(p), c.id))
           \/ /\ c.op = "list"
              /\ Return(p, ListResult(ListExpenses(Visible(p), c.start_date, c.end_date)))
           \/ /\ c.op = "summarize"
              /\ \E g \in Summarize(Visible(p), c.start_date, c.end_date, c.category) :
                    Return(p, ListResult(g))
        /\ UNCHANGED << rows, seq, returned, deleted, call, result, writer, writable >>

\* edit_expense with no field: returns before any statement.
NoStatement(p) ==
    /\ conns[p].pc = "called"
    /\ conns[p].call.op = "edit"
    /\ SetClause(conns[p].call.kw) = {}
    /\ Return(p, Error(NoFields))
    /\ UNCHANGED << rows, seq, returned, deleted, call, result, writer, writable >>

Attempt(p) == [ conns[p] EXCEPT !.attempts = @ + 1 ]

\* The statement on a file that cannot be written.
ReadOnlyFault(p) ==
    /\ conns[p].pc = "called"
    /\ Writes(conns[p].call)
    /\ ~ writable
    /\ Set(p, [ Idle EXCEPT !.pc = "returned", !.call = conns[p].call,
                            !.result = Except(conns[p].call, ReadonlyMsg),
                            !.attempts = conns[p].attempts + 1 ])
    /\ UNCHANGED << rows, seq, returned, deleted, call, result, writer, writable >>

\* Variant: a statement that is tried again after its first busy timeout.
TimeoutRetry(p) ==
    /\ conns[p].pc = "called"
    /\ Writes(conns[p].call)
    /\ writable
    /\ ~ LockFree(p)
    /\ IF conns[p].attempts < 1
       THEN Set(p, Attempt(p))
       ELSE Set(p, [ Idle EXCEPT !.pc = "returned", !.call = conns[p].call,
                                 !.result = Except(conns[p].call, LockedMsg),
                                 !.attempts = conns[p].attempts + 1 ])
    /\ UNCHANGED << rows, seq, returned, deleted, call, result, writer, writable >>

\* The statement waits for the write lock until the busy timeout ends.
Timeout(p) ==
    /\ conns[p].pc = "called"
    /\ Writes(conns[p].call)
    /\ writable
    /\ ~ LockFree(p)
    /\ Set(p, [ Idle EXCEPT !.pc = "returned", !.call = conns[p].call,
                            !.result = Except(conns[p].call, LockedMsg),
                            !.attempts = conns[p].attempts + 1 ])
    /\ UNCHANGED << rows, seq, returned, deleted, call, result, writer, writable >>

\* The statement takes the write lock and runs on the committed rows.
Execute(p) ==
    LET c == conns[p].call
        id == NextRowid(rows, seq)
    IN  /\ conns[p].pc = "called"
        /\ Writes(c)
        /\ writable
        /\ LockFree(p)
        /\ writer' = p
        /\ \/ /\ c.op = "add"
              /\ c.category = None
              /\ Set(p, [ Attempt(p) EXCEPT !.pc = "failed",
                                            !.result = Except(c, NotNullFailed),
                                            !.work = rows, !.wseq = seq ])
           \/ /\ c.op = "add"
              /\ c.category # None
              /\ Set(p, [ Attempt(p) EXCEPT
                            !.pc = "open",
                            !.work = rows \cup
                                { MkRow(id, c.date, c.amount, c.category,
                                        Arg(c.kw, "subcategory", ""),
                                        Arg(c.kw, "note", "")) },
                            !.wseq = id, !.lastrowid = id, !.rowcount = 1 ])
           \/ /\ c.op = "edit"
              /\ Set(p, [ Attempt(p) EXCEPT
                            !.pc = "open",
                            !.work = UpdateById(rows, c.id, c.kw), !.wseq = seq,
                            !.rowcount = Cardinality(SelectById(rows, c.id)) ])
           \/ /\ c.op = "delete"
              /\ Set(p, [ Attempt(p) EXCEPT
                            !.pc = "open",
                            !.work = DeleteById(rows, c.id), !.wseq = seq,
                            !.rowcount = Cardinality(SelectById(rows, c.id)) ])
           \/ /\ c.op = "init"
              /\ Set(p, [ Attempt(p) EXCEPT
                            !.pc = "open",
                            !.work = rows \cup
                                { MkRow(id, SentinelDate, 0, "test", "", "") },
                            !.wseq = id, !.lastrowid = id, !.rowcount = 1 ])
        /\ UNCHANGED << rows, seq, returned, deleted, call, result, writable >>

\* init_db: the DELETE of the rows of category 'test', in the transaction
\* of the INSERT.
SecondStatement(p) ==
    /\ conns[p].pc = "open"
    /\ conns[p].call.op = "init"
    /\ Set(p, [ conns[p] EXCEPT
                  !.pc = "open2",
                  !.work = { r \in conns[p].work : r.category # "test" } ])
    /\ UNCHANGED << rows, seq, returned, deleted, call, result, writer, writable >>

AtCommit(p) ==
    \/ conns[p].pc = "open" /\ conns[p].call.op # "init"
    \/ conns[p].pc = "open2"

\* What the tool returns after commit().
Outcome(c, lastrowid, rowcount) ==
    IF c.op = "add" THEN [ status |-> "success", id |-> lastrowid ]
    ELSE IF c.op = "init" THEN [ status |-> "done" ]
    ELSE IF rowcount = 0 THEN NotFound(c.id)
    ELSE IF c.op = "edit" THEN [ status |-> "success", updated_id |-> c.id ]
    ELSE [ status |-> "success", deleted_id |-> c.id ]

\* commit(): the transaction's copy becomes the committed rows.
Commit(p) ==
    /\ AtCommit(p)
    /\ rows' = conns[p].work
    /\ seq' = conns[p].wseq
    /\ writer' = 0
    /\ Return(p, Outcome(conns[p].call, conns[p].lastrowid, conns[p].rowcount))
    /\ UNCHANGED << returned, deleted, call, result, writable >>

\* Variant: a commit() that raises after the changes reached the file.
CommitFaultApplied(p) ==
    /\ AtCommit(p)
    /\ rows' = conns[p].work
    /\ seq' = conns[p].wseq
    /\ writer' = 0
    /\ Return(p, Except(conns[p].call, IOErrorMsg))
    /\ UNCHANGED << returned, deleted, call, result, writable >>

\* commit() raises; the connection is closed and the transaction rolled
\* back.
CommitFault(p) ==
    /\ AtCommit(p)
    /\ writer' = 0
    /\ Return(p, Except(conns[p].call, IOErrorMsg))
    /\ UNCHANGED << rows, seq, returned, deleted, call, result, writable >>

\* The statement raised: the connection is closed, its transaction rolled
\* back, and the except clause returns.
Close(p) ==
    /\ conns[p].pc = "failed"
    /\ writer' = 0
    /\ Return(p, conns[p].result)
    /\ UNCHANGED << rows, seq, returned, deleted, call, result, writable >>

\* The caller has the result; the connection is free for the next call.
Finish(p) ==
    /\ conns[p].pc = "returned"
    /\ Set(p, Idle)
    /\ UNCHANGED << rows, seq, returned, deleted, call, result, writer, writable >>

\* The file becomes read-only, or writable again.
Remount ==
    /\ writable' = ~ writable
    /\ UNCHANGED << rows, seq, returned, deleted, call, result, conns, writer >>

\* The steps of a call on connection p after it was made.
Progress(p) ==
    \/ Read(p) \/ NoStatement(p) \/ ReadOnlyFault(p) \/ Timeout(p)
    \/ Execute(p) \/ SecondStatement(p) \/ Commit(p) \/ CommitFault(p)
    \/ Close(p)

NextConc ==
    \/ \E p \in Conns, c \in ConcCalls : Call(p, c)
    \/ \E p \in Conns : Read(p)
    \/ \E p \in Conns : NoStatement(p)
    \/ \E p \in Conns : ReadOnlyFault(p)
    \/ \E p \in Conns : Timeout(p)
    \/ \E p \in Conns : Execute(p)
    \/ \E p \in Conns : SecondStatement(p)
    \/ \E p \in Conns : Commit(p)
    \/ \E p \in Conns : CommitFault(p)
    \/ \E p \in Conns : Close(p)
    \/ \E p \in Conns : Finish(p)
    \/ Remount

SpecConc == Init /\ [][NextConc]_vars

\* Every call that was made goes on: the event loop runs each task, and a
\* wait for the write lock ends with the lock or with the busy timeout.
SpecLive == SpecConc /\ \A p \in Conns : WF_vars(Progress(p))

----------------------------------------------------------------------------
(* Properties of add_expense, get_expense, edit_expense, delete_expense    *)
(* (checked under Spec)                                                    *)

AddSucceeded == call.op = "add" /\ result.status = "success"

\* C1: after a successful add with a non-empty category, get on the returned
\* id succeeds and returns that id with the submitted date, amount and
\* category, and with subcategory and note as submitted or '' when omitted.
C1_AddThenGet ==
    (AddSucceeded /\ call.category # "") =>
        LET got == GetExpense(rows, result.id)
        IN  /\ got.status = "success"
            /\ got.expense.id = result.id
            /\ got.expense.date = call.date
            /\ got.expense.amount = call.amount
            /\ got.expense.category = call.category
            /\ got.expense.subcategory =
                 (IF "subcategory" \in DOMAIN call.kw THEN call.kw.subcategory ELSE "")
            /\ got.expense.note =
                 (IF "note" \in DOMAIN call.kw THEN call.kw.note ELSE "")

\* An add of category 'Food' that gave a note and no subcategory, next to an
\* older record.
C1_Witness ==
    /\ AddSucceeded
    /\ call.category = "Food"
    /\ DOMAIN call.kw = { "note" }
    /\ Cardinality(rows) = 2
    /\ GetExpense(rows, result.id).status = "success"

\* C2 (as claimed): add with the empty string as category returns an error
\* and leaves the table as it was.
C2_EmptyCategoryRejected ==
    [][ (call'.op = "add" /\ call'.category = "") =>
            (result'.status = "error" /\ rows' = rows) ]_vars

\* C3: a successful add returns an id greater than every id returned
\* before, held by a row or deleted before, and no two rows share an id.
C3_IdsIncrease ==
    [][ (call'.op = "add" /\ result'.status = "success") =>
            /\ \A i \in returned \cup deleted \cup RowIds(rows) : result'.id > i
            /\ \A r \in rows', q \in rows' : r.id = q.id => r = q ]_vars

\* An add that follows the deletion of the record with the largest id.
C3_Witness ==
    /\ AddSucceeded
    /\ deleted # {}
    /\ \A r \in rows : r.id = result.id \/ \A i \in deleted : r.id < i

\* C4: get on an id whose delete succeeded returns not-found, in every
\* later state.
C4_DeletedStaysGone ==
    \A i \in deleted : GetExpense(rows, i) = NotFound(i)

\* A get on a deleted id after a later add.
C4_Witness ==
    /\ call.op = "get"
    /\ call.id \in deleted
    /\ \E r \in rows : r.id > call.id
    /\ result = NotFound(call.id)

C6_EditSetsGiven ==
    [][ (call'.op = "edit" /\ result'.status = "success") =>
            /\ RowIds(rows') = RowIds(rows)
            /\ Cardinality(rows') = Cardinality(rows)
            /\ \E r \in rows : r.id = call'.id
            /\ \A r \in rows : r.id # call'.id => r \in rows'
            /\ \A r \in rows, q \in rows' :
                 (r.id = call'.id /\ q.id = call'.id) =>
                     \A f \in FieldNames :
                         q[f] = (IF f \in DOMAIN call'.kw THEN call'.kw[f] ELSE r[f]) ]_vars

\* A successful edit of the amount alone, to 0, next to another record.
C6_Witness ==
    /\ call.op = "edit"
    /\ result.status = "success"
    /\ DOMAIN call.kw = { "amount" }
    /\ call.kw.amount = 0
    /\ Cardinality(rows) = 2

\* C7: edit with no field given returns "No fields to update" and leaves the
\* table as it was.
C7_NoFieldsRejected ==
    [][ (call'.op = "edit" /\ DOMAIN call'.kw = {}) =>
            (result' = Error(NoFields) /\ rows' = rows) ]_vars

\* An edit with no field given, on the id of a stored record.
C7_Witness ==
    /\ call.op = "edit"
    /\ DOMAIN call.kw = {}
    /\ \E r \in rows : r.id = call.id
    /\ result = Error(NoFields)

----------------------------------------------------------------------------
(* Properties of list_expenses and summarize (checked under SpecQuery)     *)

Returned(op) == call.op = op /\ "items" \in DOMAIN result

\* The rows whose date d has start_date <= d <= end_date in text order.
Matching == { r \in rows : TextLeq(call.start_date, r.date)
                           /\ TextLeq(r.date, call.end_date) }

\* C8: list returns the rows with date in [start_date, end_date], every one
\* of them and no other row, each once, by date descending and, for equal
\* dates, by id descending; it is the empty sequence when no row matches.
C8_ListRange ==
    Returned("list") =>
        LET s == result.items
        IN  /\ { s[i] : i \in 1 .. Len(s) } = Matching
            /\ Len(s) = Cardinality(Matching)
            /\ \A i \in 1 .. Len(s), j \in 1 .. Len(s) :
                 i < j => \/ TextLess(s[j].date, s[i].date)
                          \/ s[i].date = s[j].date /\ s[i].id > s[j].id
            /\ Matching = {} => s = << >>

\* A list of two rows of one date, with a third row outside the range.
C8_Witness ==
    /\ Returned("list")
    /\ Len(result.items) = 2
    /\ result.items[1].date = result.items[2].date
    /\ Cardinality(rows) = 3

\* C9: summarize without a category returns one group for each category
\* among the rows in range, with the sum of their amounts and their number,
\* by total descending; it is the empty sequence when no row matches.
C9_SummarizeGroups ==
    (Returned("summarize") /\ call.category = None) =>
        LET s == result.items
            of(c) == { r \in Matching : r.category = c }
        IN  /\ { s[i].category : i \in 1 .. Len(s) } = { r.category : r \in Matching }
            /\ Len(s) = Cardinality({ r.category : r \in Matching })
            /\ \A i \in 1 .. Len(s) :
                 /\ s[i].total_amount = SumAmount(of(s[i].category))
                 /\ s[i].count = Cardinality(of(s[i].category))
            /\ \A i \in 1 .. Len(s), j \in 1 .. Len(s) :
                 i < j => s[i].total_amount >= s[j].total_amount
            /\ Matching = {} => s = << >>

\* A summary of two groups of different totals, the first of two rows.
C9_Witness ==
    /\ Returned("summarize")
    /\ call.category = None
    /\ Len(result.items) = 2
    /\ result.items[1].count = 2
    /\ result.items[1].total_amount > result.items[2].total_amount

\* C10 (as claimed): summarize with a category C given returns at most one
\* group, and only a group of category C.
C10_AtMostOneGroup ==
    (Returned("summarize") /\ call.category # None) =>
        /\ Len(result.items) <= 1
        /\ \A i \in 1 .. Len(result.items) : result.items[i].category = call.category

----------------------------------------------------------------------------
(* Properties of the shape of results, of init_db and of the schema        *)

\* C11 (as claimed): what an operation returns carries a status marker, on
\* success as on failure.
C11_UniformShape == "status" \in DOMAIN result

\* C15 (as claimed): init_db run on a store that holds records removes and
\* alters none of them.
C15_InitKeepsRecords ==
    [][ call'.op = "init" => rows \subseteq rows' ]_vars

\* C18: the category of every stored row is present (not NULL).
C18_CategoryNotNull == \A r \in rows : r.category # None

\* An add without a category was rejected on a store that holds a row of
\* empty category with a note.
C18_Witness ==
    /\ call.op = "add"
    /\ call.category = None
    /\ result = Error(NotNullFailed)
    /\ \E r \in rows : r.category = "" /\ r.note = "n"

----------------------------------------------------------------------------
(* Properties of the calls of two connections (SpecConc, SpecLive)         *)

\* Connection p returns in this step.
Returns(p) == conns[p].pc # "returned" /\ conns'[p].pc = "returned"

Mutating(c) == c.op \in { "add", "edit", "delete" }

\* C12 (as claimed): on a file that cannot be written, an add, edit or delete
\* that reaches its statement returns the read-only error, and the rows stay
\* as they were.
C12_ReadOnlyOutcome ==
    [][ \A p \in Conns :
          ( /\ Returns(p)
            /\ Mutating(conns[p].call)
            /\ Writes(conns[p].call)
            /\ conns[p].pc = "called"
            /\ ~ writable )
          => /\ conns'[p].result = Error(<< "Database is read-only" >>)
             /\ rows' = rows ]_vars

\* C13: a step in which an add, edit or delete returns an error leaves the
\* rows as they were; the rows change only in a step that returns success
\* (or ends init_db); and after the step in which an edit returns success the
\* row of its id holds every field the edit gave.
C13_FailureChangesNothing ==
    [][ /\ \A p \in Conns :
             ( /\ Returns(p)
               /\ Mutating(conns[p].call)
               /\ conns'[p].result.status = "error" )
             => rows' = rows
        /\ rows' # rows =>
             \E p \in Conns : /\ Returns(p)
                              /\ conns'[p].result.status \in { "success", "done" }
        /\ \A p \in Conns :
             ( /\ Returns(p)
               /\ conns[p].call.op = "edit"
               /\ conns'[p].result.status = "success" )
             => \A r \in rows' :
                  r.id = conns[p].call.id =>
                    \A f \in DOMAIN conns[p].call.kw : r[f] = conns[p].call.kw[f]
      ]_vars

\* An edit of two fields has returned a storage error, and the row of its id
\* holds neither of the two values.
C13_Witness ==
    \E p \in Conns :
        /\ conns[p].pc = "returned"
        /\ conns[p].call.op = "edit"
        /\ DOMAIN conns[p].call.kw = { "amount", "note" }
        /\ conns[p].result = Error(IOErrorMsg)
        /\ \E r \in rows : /\ r.id = conns[p].call.id
                           /\ r.amount = 5
                           /\ r.note = ""


\* C14: in the step in which an add returns success, the id it returns was
\* held by no row before, the row of that id holds what this caller gave,
\* and the id differs from the id another connection's add holds as its
\* own result.
C14_ConcurrentAdds ==
    [][ \A p \in Conns :
          ( /\ Returns(p)
            /\ conns[p].call.op = "add"
            /\ conns'[p].result.status = "success" )
          => LET id == conns'[p].result.id
                 c == conns[p].call
             IN  /\ id \notin RowIds(rows)
                 /\ \E r \in rows' :
                      /\ r.id = id
                      /\ r.date = c.date
                      /\ r.amount = c.amount
                      /\ r.category = c.category
                      /\ r.note = Arg(c.kw, "note", "")
                 /\ \A q \in Conns \ { p } :
                      ( /\ conns[q].pc = "returned"
                        /\ conns[q].call.op = "add"
                        /\ conns[q].result.status = "success" )
                      => conns[q].result.id # id
      ]_vars

\* Both connections hold the success of an add, of different rows that are
\* both stored.
C14_Witness ==
    /\ \A p \in Conns : /\ conns[p].pc = "returned"
                        /\ conns[p].call.op = "add"
                        /\ conns[p].result.status = "success"
                        /\ \E r \in rows : /\ r.id = conns[p].result.id
                                           /\ r.category = conns[p].call.category
    /\ conns[1].call.category # conns[2].call.category
    /\ conns[1].result.id # conns[2].result.id

\* C16: what a get, list or summarize returns is made of committed rows
\* alone: a get returns a committed row, or not found for an id no
\* committed row has; every item of a list is a committed row; every group
\* of a summary counts the committed rows of its category in the range; and
\* none of them shows the self-test row of init_db.
C16_ReadsSeeCommitted ==
    [][ \A p \in Conns :
          ( Returns(p) /\ Reads(conns[p].call) )
          => LET c == conns[p].call
                 res == conns'[p].result
             IN  /\ c.op = "get" =>
                       IF res.status = "success"
                       THEN res.expense \in rows /\ res.expense.date # SentinelDate
                       ELSE c.id \notin RowIds(rows)
                 /\ c.op = "list" =>
                       /\ \A i \in 1 .. Len(res.items) :
                            /\ res.items[i] \in rows
                            /\ res.items[i].date # SentinelDate
                       /\ Len(res.items) =
                            Cardinality({ r \in rows :
                                            Between(r.date, c.start_date, c.end_date) })
                 /\ c.op = "summarize" =>
                       \A i \in 1 .. Len(res.items) :
                          LET own == { r \in rows :
                                         /\ r.category = res.items[i].category
                                         /\ Between(r.date, c.start_date, c.end_date) }
                          IN  /\ res.items[i].count = Cardinality(own)
                              /\ \A r \in own : r.date # SentinelDate
      ]_vars

\* A list has returned rows while init_db holds its self-test row
\* uncommitted.
C16_Witness ==
    \E p \in Conns :
        /\ conns[p].pc = "returned"
        /\ conns[p].call.op = "list"
        /\ conns[p].result.items # << >>
        /\ writer # 0
        /\ conns[writer].call.op = "init"
        /\ conns[writer].pc = "open"
        /\ \E r \in conns[writer].work : r.date = SentinelDate


\* C17: every call of a tool that was made returns; what it returns is a
\* result of the tool, never an exception that left it; a statement made
\* while another connection holds the write lock ends the call with the
\* storage error 'database is locked' after that one attempt, the rows as
\* they were; and no call makes its statement more than once.
C17_EventuallyReturns ==
    /\ \A p \in Conns :
         (conns[p].pc = "called" /\ conns[p].call.op # "init")
            ~> (conns[p].pc = "returned")
    /\ [][ \A p \in Conns :
             ( Returns(p) /\ conns[p].call.op # "init" )
             => LET res == conns'[p].result
                IN  /\ "status" \in DOMAIN res =>
                         res.status \in { "success", "error" }
                    /\ "status" \notin DOMAIN res => "items" \in DOMAIN res
                    /\ conns'[p].attempts <= 1
                    /\ ( /\ conns[p].pc = "called"
                         /\ Writes(conns[p].call)
                         /\ writable
                         /\ writer \notin { 0, p } )
                       => /\ res = Error(LockedMsg)
                          /\ conns'[p].attempts = 1
                          /\ rows' = rows
         ]_vars

\* A delete has returned 'database is locked' after one attempt while the
\* other connection holds the write lock with an uncommitted add.
C17_Witness ==
    \E p \in Conns :
        /\ conns[p].pc = "returned"
        /\ conns[p].call.op = "delete"
        /\ conns[p].result = Error(LockedMsg)
        /\ conns[p].attempts = 1
        /\ writer \notin { 0, p }
        /\ conns[writer].call.op = "add"
        /\ conns[writer].pc = "open"

====
